---- MODULE Spec2Model ----
(***************************************************************************)
(* FramingStream (lib/streams/framingStream.js): the Transform stream that *)
(* cuts a byte stream into ReactiveSocket frames, each announced by a      *)
(* 4-byte big-endian length.  The model follows _transform statement by    *)
(* statement: the decoder's fields _frame and _lengthLeft, the local       *)
(* cursor bufIndex, the frames handed to push(), and the position of the   *)
(* call (pc).  The environment is a byte stream fixed at the start and     *)
(* delivered in chunks of any length.                                      *)
(***************************************************************************)
EXTENDS Integers, Sequences, FiniteSets, TLC

\* ------------------------------------------------------------------ bounds
\* Longest input stream, in bytes.
MaxStream == 15

\* First byte of a payload of the input; a payload counts up from it.
PayloadStarts == {0, 7}
\* Header values below 4 the input may carry (malformed lengths).
BadLengths == {2}

\* ------------------------------------------------------------ byte helpers
Min(a, b) == IF a < b THEN a ELSE b
Max(a, b) == IF a > b THEN a ELSE b

\* Buffer.prototype.slice(start, end): a negative index counts from the end
\* of the buffer, both indices are clamped to 0..length, and an end before
\* the start gives the empty buffer.
SliceIndex(i, len) == IF i < 0 THEN Max(i + len, 0) ELSE Min(i, len)

Slice(buf, start, end) ==
    LET s == SliceIndex(start, Len(buf))
        e == SliceIndex(end, Len(buf))
    IN  IF e <= s THEN <<>> ELSE SubSeq(buf, s + 1, e)

\* buf.readUInt32BE(0); the caller has checked that buf holds 4 bytes.
readUInt32BE(buf) ==
    buf[1] * 16777216 + buf[2] * 65536 + buf[3] * 256 + buf[4]

\* The 4-byte big-endian encoding of n, as the encoder writes a frame length.
u32_be(n) ==
    << (n \div 16777216) % 256, (n \div 65536) % 256,
       (n \div 256) % 256, n % 256 >>

RECURSIVE Flatten(_)
Flatten(bufs) ==
    IF bufs = <<>> THEN <<>> ELSE Head(bufs) \o Flatten(Tail(bufs))

\* ------------------------------------------------------------ environment
\* A valid frame: the header holds the total length, header included, and
\* header - 4 payload bytes follow.
Frame(p, b) == u32_be(4 + p) \o [i \in 1..p |-> (b + i - 1) % 256]

ValidFrames ==
    { Frame(p, b) : p \in 0..(MaxStream - 4), b \in PayloadStarts }

\* A malformed length: a header whose value is below 4.
BadHeaders == { u32_be(v) : v \in BadLengths }

Records == ValidFrames \cup BadHeaders

\* The streams the byte source may deliver: up to MaxStream bytes of records.
Inputs ==
    UNION { { s \in [1..n -> Records] : Len(Flatten(s)) <= MaxStream }
            : n \in 1..(MaxStream \div 4) }

\* ------------------------------------------------------------------ state
VARIABLES
    input,        \* the wire records the byte source will deliver
    pos,          \* number of bytes of the stream delivered so far
    _frame,       \* this._frame
    _lengthLeft,  \* this._lengthLeft
    chunk,        \* the chunk of the current (or last) _transform call
    bufIndex,     \* the local cursor of _transform
    out,          \* the buffers given to push(), in push order
    pc,           \* position of the decoder
    cbCalls,      \* number of times cb ran in the current call
    entryFrame,   \* _frame when the current call was entered
    entryLengthLeft, \* _lengthLeft when the current call was entered
    entryOut      \* number of buffers pushed before the current call

vars == << input, pos, _frame, _lengthLeft, chunk, bufIndex, out, pc,
           cbCalls, entryFrame, entryLengthLeft, entryOut >>

stream == Flatten(input)

\* ------------------------------------------------- _transform, by statement
\* Line 78: while (bufIndex < chunk.length)
LoopCond(bi, c) == bi < Len(c)

\* Where control goes from the loop test.
LoopPc(bi, c) == IF LoopCond(bi, c) THEN "header" ELSE "cb"

\* Line 82 with ">=" for ">".
HeaderCondAtLeast4(ll, bi, c) == ll = 0 /\ Len(c) - bi >= 4

\* Line 82: the header is parsed when no length is known and more than 4
\* bytes of the chunk are unread.
HeaderCond(ll, bi, c) == ll = 0 /\ Len(c) - bi > 4

\* Line 83
headerLengthLeft(f) == 4 - Len(f)

\* Lines 84-85
HeaderFrame(f, bi, c) == f \o Slice(c, bi, bi + headerLengthLeft(f))

\* Line 88: readUInt32BE throws a RangeError on a buffer shorter than 4.
HeaderThrows(f, bi, c) == Len(HeaderFrame(f, bi, c)) < 4

\* Line 88 with the length clamped at 0.
HeaderLengthLeftClamped(f, bi, c) ==
    Max(readUInt32BE(HeaderFrame(f, bi, c)) - 4, 0)

HeaderLengthLeft(f, bi, c) == readUInt32BE(HeaderFrame(f, bi, c)) - 4

\* Line 89
HeaderBufIndex(f, bi) == bi + headerLengthLeft(f)

\* Lines 96-97 with "<" for "<=".
BodyCondStrict(ll, bi, c) == ll > 0 /\ ll < Len(c) - bi

\* Lines 96-97
BodyCond(ll, bi, c) == ll > 0 /\ ll <= Len(c) - bi

\* Lines 100-101
BodyFrame(f, ll, bi, c) == f \o Slice(c, bi, bi + ll)

\* Line 106
BodyBufIndex(ll, bi) == bi + ll

\* Line 114: chunk.slice(bufIndex)
TailFrame(f, bi, c) == f \o Slice(c, bi, Len(c))

\* Lines 117-119 with the counter update forgotten.
TailLengthLeftKept(ll, bi, c) == ll

\* Lines 117-119
TailLengthLeft(ll, bi, c) == IF ll # 0 THEN ll - (Len(c) - bi) ELSE ll

\* One whole _transform call (lines 78-126) as a function: the loop run from
\* cursor bi on chunk c, with f and ll the decoder's fields and o the buffers
\* pushed so far.  threw tells that readUInt32BE raised its RangeError.
RECURSIVE Scan(_, _, _, _, _)
Scan(f, ll, bi, o, c) ==
    IF ~LoopCond(bi, c)
    THEN [frame |-> f, lengthLeft |-> ll, out |-> o, threw |-> FALSE]
    ELSE IF HeaderCond(ll, bi, c) /\ HeaderThrows(f, bi, c)
    THEN [frame |-> HeaderFrame(f, bi, c), lengthLeft |-> ll, out |-> o,
          threw |-> TRUE]
    ELSE
      LET parse == HeaderCond(ll, bi, c)
          f1  == IF parse THEN HeaderFrame(f, bi, c) ELSE f
          ll1 == IF parse THEN HeaderLengthLeft(f, bi, c) ELSE ll
          bi1 == IF parse THEN HeaderBufIndex(f, bi) ELSE bi
      IN  IF BodyCond(ll1, bi1, c)
          THEN Scan(<<>>, 0, BodyBufIndex(ll1, bi1),
                    Append(o, BodyFrame(f1, ll1, bi1, c)), c)
          ELSE [frame |-> TailFrame(f1, bi1, c),
                lengthLeft |-> TailLengthLeft(ll1, bi1, c),
                out |-> o, threw |-> FALSE]

\* Line 63 with the cursor started one byte early.
InitialBufIndexEarly == 0 - 1

\* Line 63: var bufIndex = 0
InitialBufIndex == 0

\* ---------------------------------------------------------------- actions
Init ==
    /\ input \in Inputs
    /\ pos = 0
    /\ _frame = <<>>
    /\ _lengthLeft = 0
    /\ chunk = <<>>
    /\ bufIndex = 0
    /\ out = <<>>
    /\ pc = "constructed"
    /\ cbCalls = 0
    /\ entryFrame = <<>>
    /\ entryLengthLeft = 0
    /\ entryOut = 0

\* The stream machinery calls _transform with the next n bytes (lines 56-63).
Enter(n) ==
    /\ pc \in {"constructed", "idle"}
    /\ chunk' = SubSeq(stream, pos + 1, pos + n)
    /\ pos' = pos + n
    /\ bufIndex' = InitialBufIndex
    /\ pc' = LoopPc(InitialBufIndex, chunk')
    /\ cbCalls' = 0
    /\ entryFrame' = _frame
    /\ entryLengthLeft' = _lengthLeft
    /\ entryOut' = Len(out)
    /\ UNCHANGED << input, _frame, _lengthLeft, out >>

\* Lines 82-92, condition true and the header read succeeds.
ParseHeader ==
    /\ pc = "header"
    /\ HeaderCond(_lengthLeft, bufIndex, chunk)
    /\ ~HeaderThrows(_frame, bufIndex, chunk)
    /\ _frame' = HeaderFrame(_frame, bufIndex, chunk)
    /\ _lengthLeft' = HeaderLengthLeft(_frame, bufIndex, chunk)
    /\ bufIndex' = HeaderBufIndex(_frame, bufIndex)
    /\ pc' = "body"
    /\ UNCHANGED << input, pos, chunk, out, cbCalls,
                    entryFrame, entryLengthLeft, entryOut >>

\* Lines 82-88, condition true and readUInt32BE throws: _frame was already
\* assigned, the exception leaves _transform and cb is never reached.
HeaderRangeError ==
    /\ pc = "header"
    /\ HeaderCond(_lengthLeft, bufIndex, chunk)
    /\ HeaderThrows(_frame, bufIndex, chunk)
    /\ _frame' = HeaderFrame(_frame, bufIndex, chunk)
    /\ pc' = "threw"
    /\ UNCHANGED << input, pos, _lengthLeft, chunk, bufIndex, out,
                    cbCalls, entryFrame, entryLengthLeft, entryOut >>

\* Line 82, condition false.
SkipHeader ==
    /\ pc = "header"
    /\ ~HeaderCond(_lengthLeft, bufIndex, chunk)
    /\ pc' = "body"
    /\ UNCHANGED << input, pos, _frame, _lengthLeft, chunk, bufIndex, out,
                    cbCalls, entryFrame, entryLengthLeft, entryOut >>

\* Lines 96-108 with line 109 (_frame = EMPTY_BUF) forgotten.
EmitFrameNoReset ==
    /\ pc = "body"
    /\ BodyCond(_lengthLeft, bufIndex, chunk)
    /\ out' = Append(out, BodyFrame(_frame, _lengthLeft, bufIndex, chunk))
    /\ bufIndex' = BodyBufIndex(_lengthLeft, bufIndex)
    /\ _lengthLeft' = 0
    /\ _frame' = BodyFrame(_frame, _lengthLeft, bufIndex, chunk)
    /\ pc' = LoopPc(bufIndex', chunk)
    /\ UNCHANGED << input, pos, chunk, cbCalls,
                    entryFrame, entryLengthLeft, entryOut >>

\* Lines 96-109: the rest of the frame is in the chunk; push and reset, then
\* back to the loop test.
EmitFrame ==
    /\ pc = "body"
    /\ BodyCond(_lengthLeft, bufIndex, chunk)
    /\ out' = Append(out, BodyFrame(_frame, _lengthLeft, bufIndex, chunk))
    /\ bufIndex' = BodyBufIndex(_lengthLeft, bufIndex)
    /\ _lengthLeft' = 0
    /\ _frame' = <<>>
    /\ pc' = LoopPc(bufIndex', chunk)
    /\ UNCHANGED << input, pos, chunk, cbCalls,
                    entryFrame, entryLengthLeft, entryOut >>

\* Lines 110-125: keep the rest of the chunk and leave the loop.
PartialTail ==
    /\ pc = "body"
    /\ ~BodyCond(_lengthLeft, bufIndex, chunk)
    /\ _frame' = TailFrame(_frame, bufIndex, chunk)
    /\ _lengthLeft' = TailLengthLeft(_lengthLeft, bufIndex, chunk)
    /\ pc' = "cb"
    /\ UNCHANGED << input, pos, chunk, bufIndex, out, cbCalls,
                    entryFrame, entryLengthLeft, entryOut >>

\* Line 128: cb()
Callback ==
    /\ pc = "cb"
    /\ cbCalls' = cbCalls + 1
    /\ pc' = "idle"
    /\ UNCHANGED << input, pos, _frame, _lengthLeft, chunk, bufIndex, out,
                    entryFrame, entryLengthLeft, entryOut >>

Next ==
    \/ \E n \in 0..(Len(stream) - pos) : Enter(n)
    \/ ParseHeader
    \/ HeaderRangeError
    \/ SkipHeader
    \/ EmitFrame
    \/ PartialTail
    \/ Callback

Spec == Init /\ [][Next]_vars

\* ------------------------------------------------------- reading the claims
\* The input is a stream of valid frames only.
ValidInput == \A i \in 1..Len(input) : input[i] \in ValidFrames

\* The input is a stream of valid frames that each carry a payload.
PayloadInput ==
    \A i \in 1..Len(input) : input[i] \in ValidFrames /\ Len(input[i]) > 4

\* The bytes delivered so far, all chunks concatenated.
Delivered == SubSeq(stream, 1, pos)

\* The buffers pushed by the current (or last) call.
PushedNow == SubSeq(out, entryOut + 1, Len(out))

\* Offset in the stream of the first byte of record i, and of the byte after
\* its last.
FrameStart(i) == Len(Flatten(SubSeq(input, 1, i - 1)))
FrameEnd(i) == Len(Flatten(SubSeq(input, 1, i)))

\* Number of records whose last byte has been delivered.
CompleteFrames == Cardinality({ i \in 1..Len(input) : FrameEnd(i) <= pos })

\* The action system and the function Scan describe the same call.
ScanAgrees ==
    pc \in {"idle", "threw"} =>
        LET r == Scan(entryFrame, entryLengthLeft, InitialBufIndex,
                      SubSeq(out, 1, entryOut), chunk)
        IN  /\ r.frame = _frame
            /\ r.lengthLeft = _lengthLeft
            /\ r.out = out
            /\ r.threw = (pc = "threw")

\* C1: chunking independence.  On a stream of valid frames (here: frames that
\* all carry a payload), whatever the cuts, once every byte is delivered the
\* frames pushed are those a fresh decoder pushes when given the whole stream
\* as one chunk.
ChunkingIndependence ==
    (PayloadInput /\ pc = "idle" /\ pos = Len(stream)) =>
        out = Scan(<<>>, 0, InitialBufIndex, <<>>, stream).out

\* C2: exact frame boundaries.  On a stream of valid frames (here: frames
\* that all carry a payload) every pushed buffer is one whole frame: as long
\* as its own header says, and equal to the next frame of the input not
\* pushed before it.
ExactFrameBoundaries ==
    PayloadInput =>
        \A i \in 1..Len(out) :
            /\ Len(out[i]) >= 4
            /\ Len(out[i]) = readUInt32BE(out[i])
            /\ i <= Len(input)
            /\ out[i] = input[i]

\* C3: byte conservation and order.  After every completed call, the frames
\* pushed so far followed by _frame are the bytes received so far.  Stated
\* for the inputs the decoder is built for, valid frames with payloads.
ByteConservation ==
    (PayloadInput /\ pc = "idle") => Flatten(out) \o _frame = Delivered

\* C4: no complete frame is held back.  On a stream of valid frames (here:
\* frames that all carry a payload), when a call has completed every frame
\* whose last byte was delivered has been pushed, and _frame, if it holds a
\* header, is shorter than that header says.
NoCompleteFrameHeld ==
    (PayloadInput /\ pc = "idle") =>
        /\ Len(out) >= CompleteFrames
        /\ Len(_frame) >= 4 => Len(_frame) < readUInt32BE(_frame)

\* The frames a byte string holds, cut by the lengths its headers declare,
\* up to the first header that is malformed or whose frame is incomplete.
RECURSIVE WireFrames(_)
WireFrames(b) ==
    IF Len(b) < 4 THEN <<>>
    ELSE LET n == readUInt32BE(b)
         IN  IF n < 4 \/ n > Len(b) THEN <<>>
             ELSE << SubSeq(b, 1, n) >> \o WireFrames(SubSeq(b, n + 1, Len(b)))

\* The bytes left after those frames.
WireRest(b) == SubSeq(b, Len(Flatten(WireFrames(b))) + 1, Len(b))

\* b is one valid frame with at least one payload byte.
IsPayloadFrame(b) == Len(b) > 4 /\ readUInt32BE(b) = Len(b)

\* b is a non-empty run of valid frames, each with at least one payload byte.
IsPayloadFrames(b) ==
    /\ b # <<>>
    /\ WireRest(b) = <<>>
    /\ \A i \in 1..Len(WireFrames(b)) : Len(WireFrames(b)[i]) > 4

\* The call was entered with the decoder in its initial state.
EnteredInitial == entryFrame = <<>> /\ entryLengthLeft = 0

\* The decoder is in its initial state.
InInitialState == _frame = <<>> /\ _lengthLeft = 0

\* C5: the empty chunk is a no-op.  A call with a zero-length chunk never
\* enters the loop, leaves _frame and _lengthLeft as they were, pushes
\* nothing, and runs cb once.
EmptyChunkNoOp ==
    (pc # "constructed" /\ chunk = <<>>) =>
        /\ _frame = entryFrame
        /\ _lengthLeft = entryLengthLeft
        /\ Len(out) = entryOut
        /\ pc \in {"cb", "idle"}
        /\ cbCalls = IF pc = "idle" THEN 1 ELSE 0

\* C5 witness: an empty chunk arrived in the middle of a frame's body and
\* its call has completed.
EmptyChunkMidBody ==
    /\ pc = "idle"
    /\ chunk = <<>>
    /\ cbCalls = 1
    /\ _lengthLeft > 0
    /\ Len(_frame) > 4

\* C6: every chunk is processed to completion.  No call ends in an
\* exception, a completed call has run cb exactly once, and cb has not run
\* while the loop can still push.  Stated for the inputs the decoder is
\* built for, valid frames with payloads.
ChunkProcessedToCompletion ==
    PayloadInput =>
        /\ pc # "threw"
        /\ pc = "idle" => cbCalls = 1
        /\ pc \in {"header", "body", "cb"} => cbCalls = 0

\* C7: several frames in one chunk.  A decoder in the initial state given a
\* chunk that is a run of valid frames, each with a payload, pushes exactly
\* those frames in order and is in the initial state again.
MultipleFramesInOneChunk ==
    (pc = "idle" /\ EnteredInitial /\ IsPayloadFrames(chunk)) =>
        /\ PushedNow = WireFrames(chunk)
        /\ InInitialState

\* C7 witness: a call from the initial state on a chunk of two or more
\* frames has completed and pushed them.
TwoFramesInOneChunk ==
    /\ pc = "idle"
    /\ EnteredInitial
    /\ IsPayloadFrames(chunk)
    /\ Len(WireFrames(chunk)) >= 2
    /\ PushedNow = WireFrames(chunk)

\* C8: header split across two chunks.  From the initial state a chunk of
\* 1..3 bytes is kept whole with nothing pushed; and when 1..3 header bytes
\* are held and the chunk is the rest of a valid frame with a payload, the
\* call pushes exactly that frame and ends in the initial state.
HeaderSplitAcrossChunks ==
    /\ (pc = "idle" /\ EnteredInitial /\ Len(chunk) \in 1..3) =>
           /\ PushedNow = <<>>
           /\ _frame = chunk
           /\ _lengthLeft = 0
    /\ (pc = "idle" /\ entryLengthLeft = 0 /\ Len(entryFrame) \in 1..3
            /\ IsPayloadFrame(entryFrame \o chunk)) =>
           /\ PushedNow = << entryFrame \o chunk >>
           /\ InInitialState

\* C9: body split across two chunks.  From the initial state a chunk of a
\* header and j payload bytes of a frame with more than j payload bytes
\* pushes nothing and leaves _frame = the chunk, _lengthLeft = the payload
\* bytes missing; the chunk that brings exactly those bytes pushes the whole
\* frame, once, and ends in the initial state.
BodySplitAcrossChunks ==
    /\ (pc = "idle" /\ EnteredInitial /\ Len(chunk) > 4
            /\ readUInt32BE(chunk) > Len(chunk)) =>
           /\ PushedNow = <<>>
           /\ _frame = chunk
           /\ _lengthLeft = readUInt32BE(chunk) - Len(chunk)
    /\ (pc = "idle" /\ Len(entryFrame) > 4 /\ entryLengthLeft > 0
            /\ readUInt32BE(entryFrame) = Len(entryFrame) + entryLengthLeft
            /\ Len(chunk) = entryLengthLeft) =>
           /\ PushedNow = << entryFrame \o chunk >>
           /\ InInitialState

\* C9 witness: the first frame of the input arrived as header plus part of
\* the payload, then the rest of the payload, and was pushed.
BodySplitDelivered ==
    /\ pc = "idle"
    /\ Len(entryFrame) > 4
    /\ entryLengthLeft > 0
    /\ Len(chunk) = entryLengthLeft
    /\ pos = Len(input[1])
    /\ out = << input[1] >>
    /\ InInitialState

\* C10: leading partial, complete frames, trailing partial in one chunk.
\* When the decoder holds a partial frame (1..4 bytes with no length known,
\* or a parsed header with bytes missing) and the chunk brings the rest of
\* it, then frames with payloads, then a proper non-empty prefix of a further
\* frame, the call pushes exactly the completed frame and the complete
\* frames, and keeps the prefix in _frame with _lengthLeft the payload bytes
\* missing when its header was parsed and 0 otherwise.  Stated for streams of
\* valid frames and for frames that all carry a payload.
LeadingCompleteTrailing ==
    LET whole  == entryFrame \o chunk
        frames == WireFrames(whole)
        rest   == WireRest(whole)
        held   == \/ Len(entryFrame) \in 1..4 /\ entryLengthLeft = 0
                  \/ /\ Len(entryFrame) >= 4
                     /\ entryLengthLeft > 0
                     /\ readUInt32BE(entryFrame)
                            = Len(entryFrame) + entryLengthLeft
    IN  (/\ pc = "idle"
         /\ PayloadInput
         /\ held
         /\ Len(frames) >= 1
         /\ Len(frames[1]) > Len(entryFrame)
         /\ \A i \in 1..Len(frames) : Len(frames[i]) > 4
         /\ rest # <<>>
         /\ Len(rest) >= 4 => readUInt32BE(rest) >= 4) =>
            /\ PushedNow = frames
            /\ _frame = rest
            /\ \/ _lengthLeft = 0 /\ Len(rest) <= 4
               \/ Len(rest) >= 4 /\ _lengthLeft = readUInt32BE(rest) - Len(rest)

\* C11: AwaitingHeader invariant.  On a stream of valid frames (here: frames
\* that all carry a payload), at every chunk boundary with _lengthLeft = 0
\* _frame holds fewer than 4 bytes.
AwaitingHeaderInvariant ==
    (PayloadInput /\ pc = "idle" /\ _lengthLeft = 0) => Len(_frame) < 4

\* C12: AwaitingBody invariant.  On a stream of valid frames that all carry a
\* payload, at every chunk boundary with _lengthLeft > 0 _frame holds a full
\* header, _frame.length + _lengthLeft is the total length its first 4 bytes
\* declare, and _frame is the header and the payload bytes received so far of
\* one frame of the stream.
AwaitingBodyInvariant ==
    (PayloadInput /\ pc = "idle" /\ _lengthLeft > 0) =>
        /\ Len(_frame) >= 4
        /\ Len(_frame) + _lengthLeft = readUInt32BE(_frame)
        /\ \E i \in 1..Len(input) :
               /\ FrameStart(i) + Len(_frame) = pos
               /\ _frame = SubSeq(input[i], 1, Len(_frame))

\* C13: reset after emission.  The step that pushes a frame leaves the
\* decoder in its initial state, _frame empty and _lengthLeft = 0, before
\* any further byte is examined.
ResetAfterEmission ==
    [][Len(out') > Len(out) =>
          /\ _frame' = <<>>
          /\ _lengthLeft' = 0]_vars

\* C13 witness: a frame was just pushed and bytes of the same chunk remain.
PushedWithBytesLeft ==
    /\ pc = "header"
    /\ Len(out) > entryOut
    /\ InInitialState
    /\ bufIndex < Len(chunk)

\* C14: zero-payload frame.  A decoder in the initial state whose chunk
\* starts with a header of value 4 and holds more bytes pushes that header as
\* a 4-byte frame and decodes what follows as the next frame.
ZeroPayloadFrame ==
    (ValidInput /\ pc = "idle" /\ EnteredInitial /\ Len(chunk) > 4
        /\ readUInt32BE(chunk) = 4) =>
        /\ Len(PushedNow) >= 1
        /\ PushedNow[1] = SubSeq(chunk, 1, 4)

\* C15: exactly-4-byte header boundary.  A chunk of exactly 4 bytes given to
\* a decoder in the initial state is kept in _frame with _lengthLeft = 0 and
\* nothing pushed; and when _frame holds such a 4-byte header, the next
\* non-empty chunk, whatever its length, gets the header parsed: either the
\* frame is completed and pushed, or _lengthLeft is the header value minus 4
\* minus the bytes the chunk brought.
FourByteHeaderBoundary ==
    /\ (pc = "idle" /\ EnteredInitial /\ Len(chunk) = 4) =>
           /\ PushedNow = <<>>
           /\ _frame = chunk
           /\ _lengthLeft = 0
    /\ (PayloadInput /\ pc = "idle" /\ entryLengthLeft = 0
            /\ Len(entryFrame) = 4 /\ chunk # <<>>) =>
           LET payload == readUInt32BE(entryFrame) - 4
           IN  IF Len(chunk) < payload
               THEN /\ _frame = entryFrame \o chunk
                    /\ _lengthLeft = payload - Len(chunk)
               ELSE /\ Len(PushedNow) >= 1
                    /\ PushedNow[1] = entryFrame \o SubSeq(chunk, 1, payload)

\* C16: the header phase consumes exactly the missing header bytes.  On a
\* stream of valid frames with payloads, whenever the header phase runs it
\* takes 4 - _frame.length bytes, a number in 0..4, leaves _frame 4 bytes
\* long and does not move the cursor backwards; the cursor stays within
\* 0..chunk.length.
HeaderPhaseConsumesMissing ==
    PayloadInput =>
        /\ bufIndex \in 0..Len(chunk)
        /\ (pc = "header" /\ HeaderCond(_lengthLeft, bufIndex, chunk)) =>
               /\ headerLengthLeft(_frame) \in 0..4
               /\ Len(HeaderFrame(_frame, bufIndex, chunk)) = 4
               /\ HeaderBufIndex(_frame, bufIndex) >= bufIndex

\* C17: body completion coincides with emission.  _lengthLeft goes from a
\* positive value to 0 only in a step that pushes exactly one frame, and the
\* partial tail leaves a positive _lengthLeft positive.
BodyCompletionIsEmission ==
    [][/\ (_lengthLeft > 0 /\ _lengthLeft' = 0) =>
              /\ Len(out') = Len(out) + 1
              /\ SubSeq(out', 1, Len(out)) = out
       /\ (_lengthLeft > 0 /\ pc = "body" /\ out' = out) =>
              _lengthLeft' > 0]_vars

\* C17 witness: a frame whose header was parsed in an earlier call has been
\* completed and pushed by this call.
BodyCompletedAcrossCalls ==
    /\ pc = "idle"
    /\ entryLengthLeft > 0
    /\ Len(out) = entryOut + 1
    /\ _lengthLeft = 0

\* C18: a malformed length is not detected.  When the header phase decodes a
\* value v below 4, _lengthLeft becomes v - 4 and nothing is pushed; while
\* _lengthLeft is negative no exception is raised and nothing is pushed, and
\* the call ends with cb run once.
MalformedLengthUndetected ==
    /\ [][/\ (pc = "header" /\ pc' = "body"
                /\ HeaderCond(_lengthLeft, bufIndex, chunk)
                /\ readUInt32BE(_frame') < 4) =>
               /\ _lengthLeft' = readUInt32BE(_frame') - 4
               /\ out' = out
          /\ _lengthLeft' < 0 => (out' = out /\ pc' # "threw")]_vars
    /\ [](_lengthLeft < 0 =>
             /\ pc \in {"header", "body", "cb", "idle"}
             /\ cbCalls = IF pc = "idle" THEN 1 ELSE 0)

\* C18 witness: the call that decoded a malformed length has completed.
MalformedLengthDecoded ==
    /\ pc = "idle"
    /\ entryLengthLeft = 0
    /\ _lengthLeft < 0
    /\ cbCalls = 1

\* C19: a negative _lengthLeft is absorbing.  Once negative it stays
\* negative and nothing is pushed; a call entered with it negative appends
\* its whole chunk to _frame and lowers _lengthLeft by the chunk's length.
NegativeLengthAbsorbing ==
    /\ [][_lengthLeft < 0 => (_lengthLeft' < 0 /\ out' = out)]_vars
    /\ []((pc # "constructed" /\ entryLengthLeft < 0) =>
             /\ pc # "threw"
             /\ pc = "idle" =>
                    /\ _frame = entryFrame \o chunk
                    /\ _lengthLeft = entryLengthLeft - Len(chunk))

\* C19 witness: a non-empty chunk was absorbed with _lengthLeft negative.
ChunkAbsorbed ==
    /\ pc = "idle"
    /\ entryLengthLeft < 0
    /\ Len(chunk) > 0
    /\ _frame = entryFrame \o chunk

====
